---- MODULE Spec2Model ----
(***************************************************************************)
(* A model of golibafl's src/main.rs: the `fuzz` command (harness init,    *)
(* shared memory, launcher, the run_client closure with its restarts, the  *)
(* seeding step and the four-stage fuzz loop), the per-client directory    *)
(* layout, and the `run` command.                                          *)
(*                                                                         *)
(* The harness is opaque: an input is modelled by what the target does     *)
(* with it (the coverage-map entries it sets, whether it crashes); how     *)
(* long one execution takes is chosen per execution.                       *)
(*                                                                         *)
(* main.rs wires libafl components together. What a component does is      *)
(* taken from its contract in the libafl release main.rs is written        *)
(* against: CrashFeedback is true for ExitKind::Crash only; TimeFeedback   *)
(* is never interesting; StdFuzzer asks the objective first and the        *)
(* feedback only when the execution is no solution; the in-process         *)
(* executor's crash and timeout handlers ask the objective, save the state *)
(* and end the process, which the launcher respawns with the saved state;  *)
(* InProcessExecutor::new uses the library's default timeout of 5 s;       *)
(* must_load_initial_inputs is true for an empty corpus or while initial   *)
(* files remain. A respawned client begins a new round of the fuzz loop.   *)
(***************************************************************************)
EXTENDS Integers, Sequences, FiniteSets, TLC

\* ---------------------------------------------------------------- bounds
NumEdges == 2
MaxRunSecs == 1
MaxSeeds == 2
MaxRounds == 2
MaxRestarts == 1
NumSlots == 2
MaxClientId == 11
MaxFiles == 2
MaxLen == 2

\* ------------------------------------------------------ program constants
TimeoutSecs == 1
DefaultTimeoutSecs == 5
GenCount == 8
GenMaxSize == 32

\* The target is a chain of NumEdges nested branches: an input that gets d
\* branches deep sets the coverage-map entries 1..d, and it may crash there.
Edges == 1..NumEdges
Inputs == {[cov |-> 1..d, crash |-> c] : d \in 0..NumEdges, c \in BOOLEAN}
Durations == 0..MaxRunSecs

VARIABLES
    pc,             \* where the fuzz command is
    initFailed,     \* libfuzzer_initialize returned -1
    shmemFailed,    \* StdShMemProvider::new failed
    seedLoadFailed, \* load_initial_inputs returned Err
    printed,        \* messages written by main.rs
    exit,           \* "running", "zero" or "nonzero"
    dirOk,          \* read_dir(input) is Ok
    nFiles,         \* number of files in the input directory
    restored,       \* the Option<state> the launcher hands to run_client
    corpus,         \* active corpus of the client's state
    seen,           \* coverage recorded in the map feedback's state
    solutions,      \* the solutions corpus (<output>/crashes)
    remaining,      \* the state's remaining initial files; -1 is None
    cmplog,         \* entry whose comparison log the state holds
    stateCreations, \* calls of StdState::new
    genCalls,       \* calls of generate_initial_inputs
    loadCalls,      \* calls of load_initial_inputs
    filesRun,       \* seed files executed
    generator,      \* <<>> or the RandBytesGenerator in use
    cur,            \* the scheduled corpus entry
    stageIdx,       \* position in the stages tuple
    done,           \* stages finished for cur, in order
    loopIters,      \* fuzz-loop iterations started
    restarts,       \* respawns of the client
    lastExec,       \* <<>> or the record of the latest harness execution
    harnessRan,     \* some harness execution was performed
    launched,       \* "none" or what Launcher::launch returned
    \* the clients of one launcher and their directories
    output,         \* the --output root, a string (sequence of characters)
    clients,        \* per launcher slot: status, client id, state
    \* the run command
    runPc,          \* where the run command is
    runIsDir,       \* input.is_dir()
    runDirOk,       \* input.read_dir() is Ok
    entries,        \* the directory's entries (or the one input path)
    files,          \* the collected paths, as indexes into entries
    runPos,         \* position of the loop over files
    execs,          \* per entry, the calls of libfuzzer_test_one_input
    runPrinted      \* messages written by run

fuzzVars == <<pc, initFailed, shmemFailed, seedLoadFailed, printed, exit,
              dirOk, nFiles, restored, corpus, seen, solutions, remaining,
              cmplog, stateCreations, genCalls, loadCalls, filesRun,
              generator, cur, stageIdx, done, loopIters, restarts, lastExec,
              harnessRan, launched>>
dirVars == <<output, clients>>
runVars == <<runPc, runIsDir, runDirOk, entries, files, runPos, execs,
             runPrinted>>
vars == <<fuzzVars, dirVars, runVars>>

Min(a, b) == IF a < b THEN a ELSE b

InitWarning == "Warning: LLVMFuzzerInitialize failed with -1"
GoodBye == "Fuzzing stopped by user. Good bye."

\* ------------------------------------------------- executors and oracles

\* The harness closure returns ExitKind::Ok whenever the target returns.
HarnessExitKind == "Ok"

\* What happens to one execution under an executor whose watchdog fires at
\* `limit` seconds: the watchdog aborts a target still running at `limit`,
\* a crashing target is caught by the crash handler, otherwise the closure
\* returns.
Outcome(inp, dur, limit) ==
    IF dur >= limit THEN "timedout"
    ELSE IF inp.crash THEN "crashed"
    ELSE "returned"

ExitKind(out) ==
    CASE out = "returned" -> HarnessExitKind
      [] out = "crashed" -> "Crash"
      [] out = "timedout" -> "Timeout"

\* executor: InProcessExecutor::with_timeout(..., Duration::new(1, 0))
ExecutorTimeoutDefault == DefaultTimeoutSecs
ExecutorTimeout == TimeoutSecs

\* tracing executor: InProcessExecutor::new(...), no timeout given, so the
\* library's default applies
TracingTimeout == DefaultTimeoutSecs

CrashFeedback(kind) == kind = "Crash"

\* objective = feedback_or_fast!(CrashFeedback::new())
Objective(kind) == CrashFeedback(kind)

\* MaxMapFeedback: some entry of the map is not yet in the feedback state
MapFeedbackNever(cov, seenMap) == FALSE
MapFeedback(cov, seenMap) == cov \ seenMap # {}

\* TimeFeedback only annotates the testcase; it is never interesting
TimeFeedback == FALSE

\* feedback = feedback_or_fast!(map_feedback, TimeFeedback)
Feedback(cov, seenMap) == MapFeedback(cov, seenMap) \/ TimeFeedback

\* StdFuzzer::new(scheduler, feedback, objective): the objective is asked
\* first, the feedback only for an execution that is no solution.
EvaluateExecution(kind, cov, seenMap) ==
    IF Objective(kind) THEN "Solution"
    ELSE IF Feedback(cov, seenMap) THEN "Corpus"
    ELSE "None"

\* One harness execution of `inp` taking `dur` seconds in `stage` under an
\* executor with watchdog `limit`. When the closure returns and the caller
\* evaluates the execution, the fuzzer adds the input to the solutions or to
\* the corpus. When the target crashes or times out, the executor's handler
\* asks the objective only, saves the state for the respawn and the process
\* dies. `rem` is the state's remaining-files counter after this step. The
\* record of the execution keeps the scheduled entry, the stages finished for
\* it and the comparison log in the state when it ran.
Exec(inp, dur, stage, limit, evaluated, rem) ==
    LET out == Outcome(inp, dur, limit)
        kind == ExitKind(out)
        res == IF evaluated THEN EvaluateExecution(kind, inp.cov, seen)
               ELSE "None"
    IN  /\ harnessRan' = TRUE
        /\ remaining' = rem
        /\ lastExec' = <<[input |-> inp, stage |-> stage, kind |-> kind,
                          novel |-> (inp.cov \ seen # {}),
                          elapsed |-> Min(dur, limit),
                          entry |-> cur, before |-> done, log |-> cmplog]>>
        /\ IF out = "returned"
           THEN /\ corpus' = IF res = "Corpus" THEN corpus \cup {inp} ELSE corpus
                /\ seen' = IF res = "Corpus" THEN seen \cup inp.cov ELSE seen
                /\ solutions' = IF res = "Solution" THEN solutions \cup {inp}
                                ELSE solutions
                /\ restored' = restored
           ELSE /\ solutions' = IF Objective(kind) THEN solutions \cup {inp}
                                ELSE solutions
                /\ UNCHANGED <<corpus, seen>>
                /\ restored' = <<[corpus |-> corpus, seen |-> seen,
                                  remaining |-> rem, cmplog |-> cmplog]>>

Returned(inp, dur, limit) == Outcome(inp, dur, limit) = "returned"

\* ------------------------------------------------------------ fuzz(): start

\* The directory-layout variables while another command is followed.
DirIdle ==
    /\ output = <<>>
    /\ clients = <<>>

\* The run command's variables while another command is followed.
RunIdle ==
    /\ runPc = "idle"
    /\ runIsDir = FALSE
    /\ runDirOk = FALSE
    /\ entries = <<>>
    /\ files = <<>>
    /\ runPos = 0
    /\ execs = <<>>
    /\ runPrinted = {}

\* The fuzz command before anything has happened.
FuzzReset ==
    /\ initFailed = FALSE
    /\ shmemFailed = FALSE
    /\ seedLoadFailed = FALSE
    /\ printed = {}
    /\ exit = "running"
    /\ restored = <<>>
    /\ corpus = {}
    /\ seen = {}
    /\ solutions = {}
    /\ remaining = -1
    /\ cmplog = {}
    /\ stateCreations = 0
    /\ genCalls = 0
    /\ loadCalls = 0
    /\ filesRun = 0
    /\ generator = <<>>
    /\ cur = {}
    /\ stageIdx = 0
    /\ done = <<>>
    /\ loopIters = 0
    /\ restarts = 0
    /\ lastExec = <<>>
    /\ harnessRan = FALSE
    /\ launched = "none"

\* The fuzz command's variables while another command is followed.
FuzzIdle ==
    /\ pc = "idle"
    /\ dirOk = FALSE
    /\ nFiles = 0
    /\ FuzzReset

\* fuzz(cores, broker_port, input, output) is entered; the input path is a
\* readable directory with some files, or cannot be read as a directory.
Init ==
    /\ DirIdle
    /\ RunIdle
    /\ pc = "fuzz"
    /\ dirOk \in BOOLEAN
    /\ nFiles \in 0..MaxSeeds
    /\ (~dirOk => nFiles = 0)
    /\ FuzzReset

\* if unsafe { libfuzzer_initialize(&args) } == -1 { println!("Warning...") }
\* A failed initialization is reported and the command goes on.
HarnessInit ==
    /\ pc = "fuzz"
    /\ \E ok \in BOOLEAN :
        /\ initFailed' = ~ok
        /\ printed' = IF ok THEN printed ELSE printed \cup {InitWarning}
    /\ pc' = "shmem"
    /\ UNCHANGED <<shmemFailed, seedLoadFailed, exit, dirOk, nFiles, restored,
                   corpus, seen, solutions, remaining, cmplog, stateCreations,
                   genCalls, loadCalls, filesRun, generator, cur, stageIdx,
                   done, loopIters, restarts, lastExec, harnessRan,
                   launched,
                   dirVars, runVars>>

\* StdShMemProvider::new().expect("Failed to init shared memory")
ShMemExpect(ok) == IF ok THEN "launch" ELSE "aborted"

ShMemNew ==
    /\ pc = "shmem"
    /\ \E ok \in BOOLEAN :
        /\ shmemFailed' = ~ok
        /\ pc' = ShMemExpect(ok)
        /\ exit' = IF pc' = "aborted" THEN "nonzero" ELSE exit
    /\ UNCHANGED <<initFailed, seedLoadFailed, printed, dirOk, nFiles,
                   restored, corpus, seen, solutions, remaining, cmplog,
                   stateCreations, genCalls, loadCalls, filesRun, generator,
                   cur, stageIdx, done, loopIters, restarts, lastExec,
                   harnessRan,
                   launched,
                   dirVars, runVars>>


\* ------------------------------------------------- launcher and run_client

\* Launcher ... .launch(): the first client is spawned with state None.
Launch ==
    /\ pc = "launch"
    /\ pc' = "client"
    /\ UNCHANGED <<initFailed, shmemFailed, seedLoadFailed, printed, exit,
                   dirOk, nFiles, restored, corpus, seen, solutions,
                   remaining, cmplog, stateCreations, genCalls, loadCalls,
                   filesRun, generator, cur, stageIdx, done, loopIters,
                   restarts, lastExec, harnessRan,
                   launched,
                   dirVars, runVars>>

\* The launcher's restarting manager spawns a replacement for a client that
\* died in a harness execution and hands it the saved state.
Respawn ==
    /\ pc = "crashed"
    /\ restarts < MaxRestarts
    /\ restarts' = restarts + 1
    /\ pc' = "client"
    /\ UNCHANGED <<initFailed, shmemFailed, seedLoadFailed, printed, exit,
                   dirOk, nFiles, restored, corpus, seen, solutions,
                   remaining, cmplog, stateCreations, genCalls, loadCalls,
                   filesRun, generator, cur, stageIdx, done, loopIters,
                   lastExec, harnessRan,
                   launched,
                   dirVars, runVars>>

\* StdState::new(rand, CachedOnDiskCorpus, OnDiskCorpus, feedback, objective)
NewState == [corpus |-> {}, seen |-> {}, remaining |-> -1, cmplog |-> {}]

\* let mut state = state.unwrap_or_else(|| StdState::new(...))
UnwrapOrElseFresh(opt) == NewState
UnwrapOrElse(opt) == IF opt = <<>> THEN NewState ELSE opt[1]

\* state.must_load_initial_inputs(): the corpus is empty, or initial files
\* remain to be loaded
MustLoadInitialInputs(st) == st.corpus = {} \/ st.remaining > 0

\* read_dir(input).iter().len(): read_dir returns a Result, whose iterator
\* yields its Ok value, so the length is 1 for a readable directory (empty
\* or not) and 0 when the directory cannot be read.
ReadDirIterLen == IF dirOk THEN 1 ELSE 0

\* run_client from its start to the first harness execution: the state is
\* taken over or created, then the initial inputs are generated or loaded
\* when the state asks for them.
ClientSetup ==
    /\ pc = "client"
    /\ LET st == UnwrapOrElse(restored) IN
        /\ stateCreations' = stateCreations + (IF restored = <<>> THEN 1 ELSE 0)
        /\ corpus' = st.corpus
        /\ seen' = st.seen
        /\ cmplog' = st.cmplog
        /\ IF MustLoadInitialInputs(st)
           THEN IF ReadDirIterLen = 0
                THEN /\ generator' = <<[max_size |-> GenMaxSize, left |-> GenCount]>>
                     /\ genCalls' = genCalls + 1
                     /\ remaining' = st.remaining
                     /\ pc' = "generate"
                     /\ UNCHANGED loadCalls
                ELSE /\ loadCalls' = loadCalls + 1
                     /\ remaining' = IF st.remaining = -1 THEN nFiles
                                     ELSE st.remaining
                     /\ pc' = "load"
                     /\ generator' = <<>>
                     /\ UNCHANGED genCalls
           ELSE /\ remaining' = st.remaining
                /\ pc' = "loop"
                /\ generator' = <<>>
                /\ UNCHANGED <<genCalls, loadCalls>>
    /\ cur' = {}
    /\ stageIdx' = 0
    /\ done' = <<>>
    /\ UNCHANGED <<initFailed, shmemFailed, seedLoadFailed, printed, exit,
                   dirOk, nFiles, restored, solutions, filesRun, loopIters,
                   restarts, lastExec, harnessRan,
                   launched,
                   dirVars, runVars>>

\* state.generate_initial_inputs(fuzzer, executor, generator, mgr, 8): one
\* generated input is executed and evaluated
GenerateOne ==
    /\ pc = "generate"
    /\ generator[1].left > 0
    /\ \E inp \in Inputs, dur \in Durations :
        /\ Exec(inp, dur, "seed", ExecutorTimeout, TRUE, remaining)
        /\ pc' = IF Returned(inp, dur, ExecutorTimeout) THEN "generate"
                 ELSE "crashed"
    /\ generator' = <<[generator[1] EXCEPT !.left = @ - 1]>>
    /\ UNCHANGED <<initFailed, shmemFailed, seedLoadFailed, printed, exit,
                   dirOk, nFiles, cmplog, stateCreations, genCalls, loadCalls,
                   filesRun, cur, stageIdx, done, loopIters, restarts,
                   launched,
                   dirVars, runVars>>

GenerateDone ==
    /\ pc = "generate"
    /\ generator[1].left = 0
    /\ pc' = "loop"
    /\ UNCHANGED <<initFailed, shmemFailed, seedLoadFailed, printed, exit,
                   dirOk, nFiles, restored, corpus, seen, solutions,
                   remaining, cmplog, stateCreations, genCalls, loadCalls,
                   filesRun, generator, cur, stageIdx, done, loopIters,
                   restarts, lastExec, harnessRan,
                   launched,
                   dirVars, runVars>>

\* state.load_initial_inputs(...).unwrap_or_else(|_| panic!(...)): an Err
\* from the loader panics
LoadErrSkipped(ok) == "load"
LoadUnwrap(ok) == IF ok THEN "load" ELSE "aborted"

\* The next file of the input directory is taken off the remaining files,
\* loaded, executed and evaluated.
LoadOne ==
    /\ pc = "load"
    /\ remaining > 0
    /\ \E ok \in BOOLEAN :
        /\ seedLoadFailed' = (seedLoadFailed \/ ~ok)
        /\ IF LoadUnwrap(ok) = "aborted"
           THEN /\ pc' = "aborted"
                /\ exit' = "nonzero"
                /\ UNCHANGED <<restored, corpus, seen, solutions, remaining,
                               filesRun, lastExec, harnessRan>>
           ELSE /\ \E inp \in Inputs, dur \in Durations :
                    /\ Exec(inp, dur, "seed", ExecutorTimeout, TRUE,
                            remaining - 1)
                    /\ pc' = IF Returned(inp, dur, ExecutorTimeout)
                             THEN "load" ELSE "crashed"
                /\ filesRun' = filesRun + 1
                /\ UNCHANGED exit
    /\ UNCHANGED <<initFailed, shmemFailed, printed, dirOk, nFiles, cmplog,
                   stateCreations, genCalls, loadCalls, generator, cur,
                   stageIdx, done, loopIters, restarts,
                   launched,
                   dirVars, runVars>>

LoadDone ==
    /\ pc = "load"
    /\ remaining = 0
    /\ pc' = "loop"
    /\ UNCHANGED <<initFailed, shmemFailed, seedLoadFailed, printed, exit,
                   dirOk, nFiles, restored, corpus, seen, solutions,
                   remaining, cmplog, stateCreations, genCalls, loadCalls,
                   filesRun, generator, cur, stageIdx, done, loopIters,
                   restarts, lastExec, harnessRan,
                   launched,
                   dirVars, runVars>>

\* ---------------------------------------------------------- the fuzz loop

\* let mut stages = tuple_list!(calibration, tracing, i2s, power)
StagesSwapped == <<"calibration", "i2s", "tracing", "power">>
Stages == <<"calibration", "tracing", "i2s", "power">>

\* The stage at stageIdx finished: the next stage of the tuple follows, and
\* after the last one the loop schedules again.
Advance(name) ==
    /\ done' = Append(done, name)
    /\ IF stageIdx = Len(Stages)
       THEN pc' = "loop" /\ stageIdx' = 0
       ELSE pc' = "stage" /\ stageIdx' = stageIdx + 1

\* fuzzer.fuzz_loop(...): the scheduler picks the next corpus entry
Schedule ==
    /\ pc = "loop"
    /\ corpus # {}
    /\ loopIters < MaxRounds
    /\ \E e \in corpus : cur' = {e}
    /\ loopIters' = loopIters + 1
    /\ stageIdx' = 1
    /\ done' = <<>>
    /\ pc' = "stage"
    /\ UNCHANGED <<initFailed, shmemFailed, seedLoadFailed, printed, exit,
                   dirOk, nFiles, restored, corpus, seen, solutions,
                   remaining, cmplog, stateCreations, genCalls, loadCalls,
                   filesRun, generator, restarts, lastExec, harnessRan,
                   launched,
                   dirVars, runVars>>

\* fuzzer.fuzz_loop(...)? with nothing to schedule: the error leaves
\* run_client through the `?`
ClientError ==
    /\ pc = "loop"
    /\ corpus = {}
    /\ pc' = "client_err"
    /\ UNCHANGED <<initFailed, shmemFailed, seedLoadFailed, printed, exit,
                   dirOk, nFiles, restored, corpus, seen, solutions,
                   remaining, cmplog, stateCreations, genCalls, loadCalls,
                   filesRun, generator, cur, stageIdx, done, loopIters,
                   restarts, lastExec, harnessRan, launched,
                   dirVars, runVars>>

\* calibration = CalibrationStage::new(&map_feedback): the entry is executed
\* unmodified on the main executor, several times
Calibrate ==
    /\ pc = "stage"
    /\ Stages[stageIdx] = "calibration"
    /\ \E e \in cur, dur \in Durations, last \in BOOLEAN :
        /\ Exec(e, dur, "calibration", ExecutorTimeout, FALSE, remaining)
        /\ IF ~Returned(e, dur, ExecutorTimeout)
           THEN pc' = "crashed" /\ UNCHANGED <<stageIdx, done>>
           ELSE IF last THEN Advance("calibration")
           ELSE UNCHANGED <<pc, stageIdx, done>>
    /\ UNCHANGED <<initFailed, shmemFailed, seedLoadFailed, printed, exit,
                   dirOk, nFiles, cmplog, stateCreations, genCalls, loadCalls,
                   filesRun, generator, cur, loopIters, restarts, launched,
                   dirVars, runVars>>

\* tracing = TracingStage::new(InProcessExecutor::new(tracing_harness,
\* (cmplog_observer), ...)): the entry is executed once on the tracing
\* executor and its comparison log is kept in the state
Trace ==
    /\ pc = "stage"
    /\ Stages[stageIdx] = "tracing"
    /\ \E e \in cur, dur \in Durations :
        /\ Exec(e, dur, "tracing", TracingTimeout, FALSE, remaining)
        /\ IF ~Returned(e, dur, TracingTimeout)
           THEN pc' = "crashed" /\ UNCHANGED <<stageIdx, done, cmplog>>
           ELSE Advance("tracing") /\ cmplog' = {e}
    /\ UNCHANGED <<initFailed, shmemFailed, seedLoadFailed, printed, exit,
                   dirOk, nFiles, stateCreations, genCalls, loadCalls,
                   filesRun, generator, cur, loopIters, restarts, launched,
                   dirVars, runVars>>

\* i2s = StdMutationalStage::new(StdScheduledMutator::new((I2SRandReplace))):
\* one candidate derived from the entry and the comparison log in the state
\* (the entry itself when there is no log) is executed and evaluated
I2S ==
    /\ pc = "stage"
    /\ Stages[stageIdx] = "i2s"
    /\ \E inp \in (IF cmplog = {} THEN cur ELSE Inputs), dur \in Durations :
        /\ Exec(inp, dur, "i2s", ExecutorTimeout, TRUE, remaining)
        /\ IF ~Returned(inp, dur, ExecutorTimeout)
           THEN pc' = "crashed" /\ UNCHANGED <<stageIdx, done>>
           ELSE Advance("i2s")
    /\ UNCHANGED <<initFailed, shmemFailed, seedLoadFailed, printed, exit,
                   dirOk, nFiles, cmplog, stateCreations, genCalls, loadCalls,
                   filesRun, generator, cur, loopIters, restarts, launched,
                   dirVars, runVars>>

\* power = StdPowerMutationalStage::new(mutator): a score-dependent number of
\* mutants of the entry are executed and evaluated
Power ==
    /\ pc = "stage"
    /\ Stages[stageIdx] = "power"
    /\ \E inp \in Inputs, dur \in Durations, last \in BOOLEAN :
        /\ Exec(inp, dur, "power", ExecutorTimeout, TRUE, remaining)
        /\ IF ~Returned(inp, dur, ExecutorTimeout)
           THEN pc' = "crashed" /\ UNCHANGED <<stageIdx, done>>
           ELSE IF last THEN Advance("power")
           ELSE UNCHANGED <<pc, stageIdx, done>>
    /\ UNCHANGED <<initFailed, shmemFailed, seedLoadFailed, printed, exit,
                   dirOk, nFiles, cmplog, stateCreations, genCalls, loadCalls,
                   filesRun, generator, cur, loopIters, restarts, launched,
                   dirVars, runVars>>

\* ------------------------------------------------- the launcher's result

LaunchResults == {"Ok", "ShuttingDown", "OsError", "IllegalState"}

\* match Launcher...launch() {
\*     Ok(()) => (),
\*     Err(Error::ShuttingDown) => println!("Fuzzing stopped by user. Good bye."),
\*     Err(err) => panic!("Failed to run launcher: {err:?}"),
\* }
MatchLaunchLenient(res) ==
    IF res = "Ok" THEN [exit |-> "zero", out |-> {}]
    ELSE [exit |-> "zero", out |-> {GoodBye}]
MatchLaunch(res) ==
    CASE res = "Ok" -> [exit |-> "zero", out |-> {}]
      [] res = "ShuttingDown" -> [exit |-> "zero", out |-> {GoodBye}]
      [] OTHER -> [exit |-> "nonzero", out |-> {}]

LauncherReturns ==
    /\ pc \in {"launch", "client", "generate", "load", "loop", "stage",
               "crashed", "client_err"}
    /\ \E res \in LaunchResults :
        /\ launched' = res
        /\ exit' = MatchLaunch(res).exit
        /\ printed' = printed \cup MatchLaunch(res).out
    /\ pc' = "exited"
    /\ UNCHANGED <<initFailed, shmemFailed, seedLoadFailed, dirOk, nFiles,
                   restored, corpus, seen, solutions, remaining, cmplog,
                   stateCreations, genCalls, loadCalls, filesRun, generator,
                   cur, stageIdx, done, loopIters, restarts, lastExec,
                   harnessRan,
                   dirVars, runVars>>

Next ==
    \/ HarnessInit
    \/ ShMemNew
    \/ Launch
    \/ Respawn
    \/ ClientSetup
    \/ GenerateOne
    \/ GenerateDone
    \/ LoadOne
    \/ LoadDone
    \/ Schedule
    \/ ClientError
    \/ Calibrate
    \/ Trace
    \/ I2S
    \/ Power
    \/ LauncherReturns

Spec == Init /\ [][Next]_vars


\* ===================================================== directory layout

Slots == 1..NumSlots
ClientIds == 0..MaxClientId

\* Strings are sequences of characters.
Outputs == {<<".", "/", "o">>, <<"o", "1">>}
Slash == <<"/">>
QueueWord == <<"q", "u", "e", "u", "e">>
CrashesWord == <<"c", "r", "a", "s", "h", "e", "s">>
DigitChars == <<"0", "1", "2", "3", "4", "5", "6", "7", "8", "9">>

\* Display of a client id: its decimal digits
RECURSIVE Decimal(_)
Decimal(n) ==
    IF n < 10 THEN <<DigitChars[n + 1]>>
    ELSE Decimal(n \div 10) \o <<DigitChars[(n % 10) + 1]>>

\* format!("{}/queue/{}", output.display(), client_description.id())
QueueDirShared(out, id) == out \o Slash \o QueueWord
QueueDir(out, id) == out \o Slash \o QueueWord \o Slash \o Decimal(id)

\* format!("{}/crashes", output.display())
CrashesDir(out) == out \o Slash \o CrashesWord

\* state.unwrap_or_else(|| StdState::new(.., CachedOnDiskCorpus::new(queue
\* dir, 4096), OnDiskCorpus::new(crashes dir), ..)): the directories are
\* fixed when the state is created and travel with a restored state
ClientState(opt, out, id) ==
    IF opt = <<>> THEN [queue |-> QueueDir(out, id), crashes |-> CrashesDir(out)]
    ELSE opt[1]

DirInit ==
    /\ FuzzIdle
    /\ RunIdle
    /\ output \in Outputs
    /\ clients = [s \in Slots |-> [status |-> "off", id |-> 0, state |-> <<>>]]

\* The launcher starts the client of a slot: run_client(None, mgr,
\* client_description)
SpawnClient ==
    /\ \E s \in Slots, id \in ClientIds :
        /\ clients[s].status = "off"
        /\ clients' = [clients EXCEPT ![s] =
              [status |-> "running", id |-> id,
               state |-> <<ClientState(<<>>, output, id)>>]]
    /\ UNCHANGED <<output, fuzzVars, runVars>>

\* A client dies in a harness execution; its state is saved for the respawn.
ClientDies ==
    /\ \E s \in Slots :
        /\ clients[s].status = "running"
        /\ clients' = [clients EXCEPT ![s].status = "dead"]
    /\ UNCHANGED <<output, fuzzVars, runVars>>

\* The replacement of a dead client: run_client(Some(state), mgr,
\* client_description)
RespawnClient ==
    /\ \E s \in Slots :
        /\ clients[s].status = "dead"
        /\ clients' = [clients EXCEPT ![s] =
              [status |-> "running", id |-> clients[s].id,
               state |-> <<ClientState(clients[s].state, output, clients[s].id)>>]]
    /\ UNCHANGED <<output, fuzzVars, runVars>>

DirNext ==
    \/ SpawnClient
    \/ ClientDies
    \/ RespawnClient

DirSpec == DirInit /\ [][DirNext]_vars

\* ========================================================== run command

FileKinds == [ok : BOOLEAN, len : 0..MaxLen, readable : BOOLEAN]

RECURSIVE SeqsUpTo(_, _)
SeqsUpTo(S, n) ==
    IF n = 0 THEN {<<>>}
    ELSE LET shorter == SeqsUpTo(S, n - 1)
         IN  shorter \cup {Append(q, x) : q \in shorter, x \in S}

\* run(input) is entered: the path is a directory (readable or not) with
\* some entries, or it is not a directory and is taken as the one file.
RunInit ==
    /\ FuzzIdle
    /\ DirIdle
    /\ runPc = "start"
    /\ runIsDir \in BOOLEAN
    /\ runDirOk \in BOOLEAN
    /\ entries \in SeqsUpTo(FileKinds, MaxFiles)
    /\ (runIsDir /\ ~runDirOk) => entries = <<>>
    /\ ~runIsDir => (/\ ~runDirOk
                     /\ Len(entries) = 1
                     /\ entries[1].ok)
    /\ files = <<>>
    /\ runPos = 0
    /\ execs = [i \in 1..Len(entries) |-> 0]
    /\ runPrinted = {}

\* .filter_map(core::result::Result::ok).map(|e| e.path()).collect()
RECURSIVE OkEntries(_, _)
OkEntries(es, i) ==
    IF i > Len(es) THEN <<>>
    ELSE (IF es[i].ok THEN <<i>> ELSE <<>>) \o OkEntries(es, i + 1)

\* let files = if input.is_dir() { input.read_dir().expect(..)... } else
\* { vec![input] }
RunCollect ==
    /\ runPc = "start"
    /\ IF runIsDir
       THEN IF runDirOk
            THEN files' = OkEntries(entries, 1) /\ runPc' = "init"
            ELSE files' = files /\ runPc' = "panicked"
       ELSE files' = <<1>> /\ runPc' = "init"
    /\ UNCHANGED <<runIsDir, runDirOk, entries, runPos, execs, runPrinted,
                   fuzzVars, dirVars>>

\* if unsafe { libfuzzer_initialize(&args) } == -1 { println!("Warning...") }
RunHarnessInit ==
    /\ runPc = "init"
    /\ \E ok \in BOOLEAN :
        runPrinted' = IF ok THEN runPrinted
                      ELSE runPrinted \cup {<<InitWarning, 0>>}
    /\ runPc' = "loop"
    /\ runPos' = 1
    /\ UNCHANGED <<runIsDir, runDirOk, entries, files, execs, fuzzVars,
                   dirVars>>

\* if inp.len() > 1 { ... libfuzzer_test_one_input(&inp) }
RunsHarness(len) == len > 1

\* One iteration of `for f in &files`: the file is announced and read (a
\* failed read panics); its content is printed and given to the harness
\* when it is longer than one byte.
RunFile ==
    /\ runPc = "loop"
    /\ runPos <= Len(files)
    /\ LET f == files[runPos] IN
        IF ~entries[f].readable
        THEN /\ runPc' = "panicked"
             /\ runPrinted' = runPrinted \cup {<<"Running", f>>}
             /\ UNCHANGED <<runPos, execs>>
        ELSE /\ runPc' = "loop"
             /\ runPos' = runPos + 1
             /\ IF RunsHarness(entries[f].len)
                THEN /\ execs' = [execs EXCEPT ![f] = @ + 1]
                     /\ runPrinted' = runPrinted \cup
                                        {<<"Running", f>>, <<"INPUT", f>>}
                ELSE /\ execs' = execs
                     /\ runPrinted' = runPrinted \cup {<<"Running", f>>}
    /\ UNCHANGED <<runIsDir, runDirOk, entries, files, fuzzVars, dirVars>>

\* The loop is over and run returns.
RunEnd ==
    /\ runPc = "loop"
    /\ runPos > Len(files)
    /\ runPc' = "done"
    /\ UNCHANGED <<runIsDir, runDirOk, entries, files, runPos, execs,
                   runPrinted, fuzzVars, dirVars>>

RunNext ==
    \/ RunCollect
    \/ RunHarnessInit
    \/ RunFile
    \/ RunEnd

RunSpec == RunInit /\ [][RunNext]_vars

\* ======================================================== claims: fuzz

LastExecs == {lastExec[i] : i \in 1..Len(lastExec)}

\* C1: every input whose execution ends as Crash or as Timeout is in the
\* solutions corpus afterwards. (Fails: the objective is CrashFeedback alone,
\* so an execution the watchdog aborts is no solution.)
C1_CrashOrTimeoutInSolutions ==
    \A x \in LastExecs :
        x.kind \in {"Crash", "Timeout"} => x.input \in solutions

\* C2, as stated: every input whose execution sets a coverage-map entry not
\* yet in the feedback state is in the active corpus afterwards, also when
\* the execution is a solution.
C2_NovelInCorpus ==
    \A x \in LastExecs : x.novel => x.input \in corpus

\* C2, amended: every input whose execution returns (ExitKind::Ok) and sets a
\* coverage-map entry not yet in the feedback state is in the active corpus
\* afterwards.
C2_NovelReturnedInCorpus ==
    \A x \in LastExecs : (x.novel /\ x.kind = "Ok") => x.input \in corpus

C2_Witness ==
    \E x \in LastExecs :
        /\ x.novel /\ x.kind = "Ok" /\ x.stage = "power"
        /\ x.input \in corpus
        /\ x.input \notin x.entry

SeedingDone == restarts = 0 /\ pc \in {"loop", "stage", "client_err"}

\* C3: at the first start, an existing empty input directory makes the
\* generator produce the initial corpus (8 inputs of at most 32 bytes) and
\* nothing is loaded from disk; a non-empty input directory has every file
\* loaded and executed once and the generator is not used. (Fails: the test
\* read_dir(input).iter().len() == 0 is true only for an unreadable
\* directory.)
C3_EmptyDirGenerates ==
    /\ (restarts = 0 /\ stateCreations = 1 /\ dirOk /\ nFiles = 0)
          => (genCalls = 1 /\ loadCalls = 0)
    /\ (SeedingDone /\ dirOk /\ nFiles = 0)
          => generator = <<[max_size |-> 32, left |-> 0]>>
    /\ (restarts = 0 /\ stateCreations = 1 /\ dirOk /\ nFiles > 0)
          => (genCalls = 0 /\ loadCalls = 1)
    /\ (SeedingDone /\ dirOk /\ nFiles > 0) => filesRun = nFiles

\* C4, as stated: after a failed harness initialization, a failed
\* shared-memory allocation, an unreadable seed or an unreadable seed path,
\* no harness execution and no fuzz-loop iteration is performed.
C4_FatalStartupStopsAll ==
    (initFailed \/ shmemFailed \/ seedLoadFailed \/ ~dirOk)
        => (~harnessRan /\ loopIters = 0)

\* C4, amended: a failed shared-memory allocation aborts the command before
\* any harness execution and any fuzz-loop iteration; an error of
\* load_initial_inputs aborts the client before any fuzz-loop iteration; a
\* failed harness initialization only prints a warning.
C4_ShmemAndSeedLoadAbort ==
    /\ shmemFailed
          => (pc = "aborted" /\ exit = "nonzero" /\ ~harnessRan /\ loopIters = 0)
    /\ seedLoadFailed
          => (pc = "aborted" /\ exit = "nonzero" /\ loopIters = 0)
    /\ initFailed => InitWarning \in printed

C4_Witness ==
    /\ seedLoadFailed /\ pc = "aborted"
    /\ initFailed
    /\ filesRun > 0

C7_LauncherOutcome ==
    pc = "exited" =>
        /\ launched = "ShuttingDown" => (exit = "zero" /\ GoodBye \in printed)
        /\ launched \notin {"Ok", "ShuttingDown"}
              => (exit = "nonzero" /\ GoodBye \notin printed)

C7_Witness ==
    /\ pc = "exited"
    /\ launched = "ShuttingDown"
    /\ loopIters > 0

\* C9, as stated: every harness execution of a client, in every stage and
\* during seeding, that is still running after 1 second is aborted by the
\* watchdog.
C9_AllAbortedAtOneSecond ==
    \A x \in LastExecs :
        x.elapsed >= 1 => (x.kind = "Timeout" /\ x.elapsed = 1)

\* C9, amended: every harness execution on the main executor (seeding,
\* calibration, input-to-state, power) that is still running after 1 second
\* is aborted by the watchdog; the tracing stage has its own executor, built
\* without that timeout.
C9_MainExecutorAbortsAtOneSecond ==
    \A x \in LastExecs :
        (x.stage # "tracing" /\ x.elapsed >= 1)
            => (x.kind = "Timeout" /\ x.elapsed = 1)

C9_Witness ==
    \E x \in LastExecs :
        x.stage = "power" /\ x.kind = "Timeout" /\ x.elapsed = 1

\* ============================================ claims: directory layout

HasState(s) == clients[s].state # <<>>

\* The number a decimal string displays
RECURSIVE ParseDecimal(_)
ParseDecimal(str) ==
    IF str = <<>> THEN 0
    ELSE LET last == str[Len(str)]
             d == CHOOSE k \in 0..9 : DigitChars[k + 1] = last
         IN  10 * ParseDecimal(SubSeq(str, 1, Len(str) - 1)) + d

\* C8: two clients under one output root with different ids never use the
\* same active-corpus directory, each uses <output>/queue/<its id>, all use
\* the solutions directory <output>/crashes, and a client's active-corpus
\* directory never changes once its state exists.
C8_DirectoriesPerClient ==
    /\ [](\A a \in Slots :
            HasState(a) =>
              LET q == clients[a].state[1].queue
                  n == Len(output)
              IN  /\ Len(q) > n + 7
                  /\ SubSeq(q, 1, n) = output
                  /\ SubSeq(q, n + 1, n + 7) = <<"/", "q", "u", "e", "u", "e", "/">>
                  /\ ParseDecimal(SubSeq(q, n + 8, Len(q))) = clients[a].id
                  /\ clients[a].state[1].crashes
                        = output \o <<"/", "c", "r", "a", "s", "h", "e", "s">>
                  /\ \A b \in Slots :
                        (HasState(b) /\ clients[b].id # clients[a].id)
                          => clients[b].state[1].queue # q)
    /\ [][\A a \in Slots :
            HasState(a) => (/\ clients'[a].state = clients[a].state
                            /\ clients'[a].id = clients[a].id)]_vars

C8_Witness ==
    \E a, b \in Slots :
        /\ a # b
        /\ clients[a].status = "running" /\ clients[b].status = "running"
        /\ clients[a].id = 1 /\ clients[b].id = 11
        /\ clients[a].state[1].queue # clients[b].state[1].queue
        /\ clients[a].state[1].crashes = clients[b].state[1].crashes

\* =================================================== claims: run command

\* C10: the run command executes every file of the input directory exactly
\* once against the harness, whatever its length, and an unreadable file
\* stops the run. (Fails: a file of 0 or 1 bytes is read but never handed to
\* the harness.)
C10_EveryFileRunOnce ==
    /\ runPc = "done" =>
          \A i \in 1..Len(entries) : entries[i].ok => execs[i] = 1
    /\ \A i \in 1..Len(files) :
          (i < runPos => entries[files[i]].readable)
====
